---- MODULE Spec2Model ----
(***************************************************************************)
(* Lighting controller of the SMD 5050 RGBW led strip driver               *)
(* (src/src/main.cpp): the white channel led_strip_w, the RGB group        *)
(* led_strip_rgb, the carried memory last_color, the button callbacks,     *)
(* the MQTT / Blynk / serial command handlers and the color_mixer ramp.    *)
(***************************************************************************)
EXTENDS Integers, Sequences, FiniteSets, TLC

VARIABLES
  pc,            \* "boot" before setup() has run, "run" afterwards
  w_state,       \* led_strip_w.getState()
  w_intensity,   \* led_strip_w.getIntensity()
  rgb_state,     \* led_strip_rgb.getState()
  rgb_mode,      \* led_strip_rgb.getMode()
  rgb_color,     \* led_strip_rgb.getColor()
  rgb_speed,     \* speed handed to led_strip_rgb.setSpeed()
  last_color,    \* global last_color
  last_pot_color_value,  \* global last_pot_color_value
  stat,          \* last snapshot published by mqttSendStat()
  sent,          \* number of snapshots published by the handler that ran last
  loop_pc,       \* the call of loop() that comes next
  loop_calls,    \* the calls made so far in this iteration of loop()
  lastEv,        \* history: the handler that ran last
  lastArg,       \* history: the input of that handler
  pre,           \* history: controller state before that handler
  run,           \* history: consecutive btnModeShortPressed calls (saturating)
  run_start,     \* history: controller state before the first call of the run
  mix_pc,        \* "call" before color_mixer has run on mix_in, "ret" after
  mix_in,        \* argument handed to color_mixer
  mix_out        \* value color_mixer returned for mix_in

vars == <<pc, w_state, w_intensity, rgb_state, rgb_mode, rgb_color, rgb_speed,
          last_color, last_pot_color_value, stat, sent, loop_pc, loop_calls,
          lastEv, lastArg, pre, run, run_start, mix_pc, mix_in, mix_out>>

ctlVars == <<w_state, w_intensity, rgb_state, rgb_mode, rgb_color, rgb_speed,
             last_color, last_pot_color_value, stat, sent>>
histVars == <<lastEv, lastArg, pre, run, run_start>>
mixVars == <<mix_pc, mix_in, mix_out>>
loopVars == <<loop_pc, loop_calls>>

----------------------------------------------------------------------------
(* Values of the led strip library                                          *)

ON == "ON"
OFF == "OFF"
NORMAL == "NORMAL"
STROBE == "STROBE"
FLASH == "FLASH"
FADE == "FADE"
Modes == {NORMAL, STROBE, FLASH, FADE}

COLOR_WHITE == 16777215
COLOR_RED == 16711680
COLOR_GREEN == 65280
COLOR_BLUE == 255
COLOR_DARKPURPLE == 8388736
DEFAULT_COLOR == COLOR_DARKPURPLE

\* Saturation point of the history counter run.
MaxRun == 7

\* Values carried by the commands of the external transports.
ColorInputs == {COLOR_WHITE, COLOR_RED}
IntensityInputs == {128, 1024}
OnOffPayloads == {"on", "off", "other"}
ModePayloads == {"normal", "strobe", "flash", "fade", "other"}

NoStat == [none |-> TRUE]

----------------------------------------------------------------------------
(* The controller state as one value, and the library calls on it           *)

Cur == [w_state |-> w_state, w_intensity |-> w_intensity,
        rgb_state |-> rgb_state, rgb_mode |-> rgb_mode,
        rgb_color |-> rgb_color, rgb_speed |-> rgb_speed,
        last_color |-> last_color,
        last_pot_color_value |-> last_pot_color_value,
        stat |-> stat, sent |-> sent]

\* the controller state as a handler finds it: nothing published yet
Begin == [Cur EXCEPT !.sent = 0]

Snapshot(s) == [w_state |-> s.w_state, w_intensity |-> s.w_intensity,
                rgb_state |-> s.rgb_state, rgb_mode |-> s.rgb_mode,
                rgb_color |-> s.rgb_color, rgb_speed |-> s.rgb_speed,
                last_color |-> s.last_color,
                last_pot_color_value |-> s.last_pot_color_value]

w_turnOn(s) == [s EXCEPT !.w_state = ON]
w_turnOff(s) == [s EXCEPT !.w_state = OFF]
w_setIntensity(s, v) ==
  [s EXCEPT !.w_intensity = IF v < 0 THEN 0 ELSE IF v > 255 THEN 255 ELSE v]
rgb_turnOn(s) == [s EXCEPT !.rgb_state = ON]
rgb_turnOff(s) == [s EXCEPT !.rgb_state = OFF]
rgb_setColor(s, c) == [s EXCEPT !.rgb_color = c]
rgb_setMode(s, m) == [s EXCEPT !.rgb_mode = m]
rgb_setSpeed(s, v) == [s EXCEPT !.rgb_speed = v]
rgb_nextMode(s) ==
  [s EXCEPT !.rgb_mode = CASE s.rgb_mode = NORMAL -> STROBE
                           [] s.rgb_mode = STROBE -> FLASH
                           [] s.rgb_mode = FLASH -> FADE
                           [] s.rgb_mode = FADE -> NORMAL]

----------------------------------------------------------------------------
(* Telemetry                                                                *)

\* the color the rgb group drives: the stored color while it is on (the phase
\* of an animation is not modelled), zero while it is off
getRGBColor(s) == IF s.rgb_state = ON THEN s.rgb_color ELSE 0

\* the three components of a packed color
Red(c) == (c \div 65536) % 256
Green(c) == (c \div 256) % 256
Blue(c) == c % 256

HexDigits ==
  <<"0", "1", "2", "3", "4", "5", "6", "7", "8", "9",
    "a", "b", "c", "d", "e", "f">>

RECURSIVE StringHex(_)
\* String(value, HEX): the digits of value in base 16, most significant
\* first, without leading zeros; a text is a sequence of characters
StringHex(value) ==
  IF value < 16
  THEN <<HexDigits[value + 1]>>
  ELSE StringHex(value \div 16) \o <<HexDigits[(value % 16) + 1]>>

\* the color field of the snapshot
ColorField(c) ==
  <<"#">> \o StringHex(Red(c)) \o StringHex(Green(c))
          \o StringHex(Blue(c))

\* the mode field of the snapshot while rgb is on
ModeField(mode) ==
  CASE mode = NORMAL -> "NORMAL"
    [] mode = STROBE -> "STROBE"
    [] mode = FLASH -> "FLASH"
    [] mode = FADE -> "FADE"

\* faulty variant: the white intensity is reported while white is off
getState_OffIntensity(s) ==
  [white |-> [state |-> IF s.w_state = ON THEN "ON" ELSE "OFF",
              intensity |-> s.w_intensity],
   rgb |-> IF s.rgb_state = ON
           THEN [state |-> "ON", mode |-> ModeField(s.rgb_mode),
                 color |-> ColorField(getRGBColor(s))]
           ELSE [state |-> "OFF", mode |-> "",
                 color |-> ColorField(getRGBColor(s))]]

\* the snapshot: state and intensity of white, state, mode and color of rgb
getState(s) ==
  [white |-> IF s.w_state = ON
             THEN [state |-> "ON", intensity |-> s.w_intensity]
             ELSE [state |-> "OFF", intensity |-> 0],
   rgb |-> IF s.rgb_state = ON
           THEN [state |-> "ON", mode |-> ModeField(s.rgb_mode),
                 color |-> ColorField(getRGBColor(s))]
           ELSE [state |-> "OFF", mode |-> "",
                 color |-> ColorField(getRGBColor(s))]]

mqttSendStat(s) == [s EXCEPT !.stat = getState(s), !.sent = s.sent + 1]

updateWidgets(s) == mqttSendStat(s)

----------------------------------------------------------------------------
(* Button callbacks                                                         *)

\* faulty variant: the first rule also sets the white channel to full
ShortPressed_AllOff_Full(s) == w_turnOn(w_setIntensity(s, 255))

\* white off and rgb off: turn the white channel on
ShortPressed_AllOff(s) == w_turnOn(s)

\* faulty variant: the second rule leaves the white intensity alone
ShortPressed_WhiteOn_NoIntensity(s) ==
  LET s2 == [s EXCEPT !.last_color = s.rgb_color]
      s3 == rgb_setColor(s2, COLOR_WHITE)
      s4 == rgb_setMode(s3, NORMAL)
  IN rgb_turnOn(s4)

\* white on and rgb off: white to full, remember the color, rgb shows white
ShortPressed_WhiteOn(s) ==
  LET s1 == w_setIntensity(s, 255)
      s2 == [s1 EXCEPT !.last_color = s1.rgb_color]
      s3 == rgb_setColor(s2, COLOR_WHITE)
      s4 == rgb_setMode(s3, NORMAL)
  IN rgb_turnOn(s4)

\* faulty variant: the third rule does not restore the color
ShortPressed_RgbAsWhite_NoRestore(s) == rgb_turnOn(w_turnOff(s))

\* mode NORMAL showing COLOR_WHITE: white off, color restored from last_color
ShortPressed_RgbAsWhite(s) ==
  LET s1 == w_turnOff(s)
      s2 == rgb_setColor(s1, s1.last_color)
  IN rgb_turnOn(s2)

\* faulty variant: the white strip is not turned back on
ShortPressed_Fade_NoWhite(s) == rgb_turnOff(rgb_nextMode(s))

\* faulty variant: the fourth rule does not advance the mode
ShortPressed_Fade_NoNext(s) == rgb_turnOff(w_turnOn(s))

\* mode FADE: white on, mode advanced, rgb off
ShortPressed_Fade(s) ==
  LET s1 == w_turnOn(s)
      s2 == rgb_nextMode(s1)
  IN rgb_turnOff(s2)

\* faulty variant: the last rule also switches the white channel off
ShortPressed_Next_WhiteOff(s) == rgb_nextMode(w_turnOff(s))

\* any other case: next mode
ShortPressed_Next(s) == rgb_nextMode(s)

\* the ordered decision list: the first matching rule fires
btnModeShortPressed(s) ==
  updateWidgets(
    IF s.w_state = OFF /\ s.rgb_state = OFF THEN ShortPressed_AllOff(s)
    ELSE IF s.w_state = ON /\ s.rgb_state = OFF THEN ShortPressed_WhiteOn(s)
    ELSE IF s.rgb_mode = NORMAL /\ s.rgb_color = COLOR_WHITE
      THEN ShortPressed_RgbAsWhite(s)
    ELSE IF s.rgb_mode = FADE THEN ShortPressed_Fade(s)
    ELSE ShortPressed_Next(s))

\* faulty variant: the snapshot is published before the strips are changed
btnModeLongPressed_StatFirst(s) == rgb_turnOff(w_turnOff(updateWidgets(s)))

\* faulty variant: turning off also forgets the white intensity
btnModeLongPressed_Dark(s) ==
  updateWidgets(rgb_turnOff(w_turnOff(w_setIntensity(s, 0))))

\* faulty variant: the long press leaves the rgb group as it is
btnModeLongPressed_KeepsRgb(s) == updateWidgets(w_turnOff(s))

\* both off
btnModeLongPressed(s) ==
  LET s1 == w_turnOff(s)
      s2 == rgb_turnOff(s1)
  IN updateWidgets(s2)

----------------------------------------------------------------------------
(* color_mixer: C++ integer arithmetic on a uint16_t argument               *)

POT_MAX == 1023

\* integer division of C++ (truncation toward zero)
CDiv(a, b) == IF a >= 0 THEN a \div b ELSE -((-a) \div b)
\* conversion of an int to uint16_t
U16(x) == x % 65536

PackRGB(red, green, blue) ==
  (red % 256) * 65536 + (green % 256) * 256 + (blue % 256)

color_mixer(input_value) ==
  IF input_value < 341
  THEN LET v == U16(CDiv(input_value * 3, 4))
       IN PackRGB(256 - v, v, 1)
  ELSE IF input_value < 682
  THEN LET v == U16(CDiv((input_value - 341) * 3, 4))
       IN PackRGB(1, 256 - v, v)
  ELSE LET v == U16(CDiv((input_value - 683) * 3, 4))
       IN PackRGB(v, 1, 256 - v)

----------------------------------------------------------------------------
(* readPotValue                                                             *)

THRESHOLD_FOR_TURN_ON == 100

\* Readings of analogRead(POT_COLOR_PIN) the model draws from.
PotInputs == {8, 1023}

AbsInt(x) == IF x < 0 THEN -x ELSE x

\* rgb on: the color in NORMAL and STROBE, the speed in FLASH and FADE
\* faulty variant: Strobe treated as a speed mode
readPot_Rgb_StrobeSpeed(s, new_pot_value) ==
  CASE s.rgb_mode = NORMAL -> rgb_setColor(s, color_mixer(new_pot_value))
    [] s.rgb_mode = STROBE -> rgb_setSpeed(s, new_pot_value)
    [] s.rgb_mode = FLASH -> rgb_setSpeed(s, new_pot_value)
    [] s.rgb_mode = FADE -> rgb_setSpeed(s, new_pot_value)

readPot_Rgb(s, new_pot_value) ==
  CASE s.rgb_mode = NORMAL -> rgb_setColor(s, color_mixer(new_pot_value))
    [] s.rgb_mode = STROBE -> rgb_setColor(s, color_mixer(new_pot_value))
    [] s.rgb_mode = FLASH -> rgb_setSpeed(s, new_pot_value)
    [] s.rgb_mode = FADE -> rgb_setSpeed(s, new_pot_value)

\* rgb off and white on: the white intensity
readPot_White(s) == w_setIntensity(s, s.last_pot_color_value)

\* faulty variant: the intensity is set but the strip is left off
readPot_AllOff_StaysOff(s, new_pot_value) ==
  w_setIntensity(s, s.last_pot_color_value)

\* both off: white on at the reading; the threshold is compared with the
\* value last_pot_color_value already holds
readPot_AllOff(s, new_pot_value) ==
  LET s1 == w_turnOn(w_setIntensity(s, s.last_pot_color_value))
  IN IF AbsInt((new_pot_value \div 4) - s1.last_pot_color_value)
          > THRESHOLD_FOR_TURN_ON
     THEN w_turnOn(w_setIntensity(s1, s1.last_pot_color_value))
     ELSE s1

\* faulty variant: every sample is taken as a change
readPotValue_NoGuard(s, new_pot_value) ==
  LET s1 == [s EXCEPT !.last_pot_color_value = new_pot_value \div 4]
  IN updateWidgets(
       IF s1.rgb_state = ON THEN readPot_Rgb(s1, new_pot_value)
       ELSE IF s1.w_state = ON THEN readPot_White(s1)
       ELSE readPot_AllOff(s1, new_pot_value))

readPotValue(s, new_pot_value) ==
  IF (new_pot_value \div 4) # s.last_pot_color_value
  THEN LET s1 == [s EXCEPT !.last_pot_color_value = new_pot_value \div 4]
       IN updateWidgets(
            IF s1.rgb_state = ON THEN readPot_Rgb(s1, new_pot_value)
            ELSE IF s1.w_state = ON THEN readPot_White(s1)
            ELSE readPot_AllOff(s1, new_pot_value))
  ELSE s

----------------------------------------------------------------------------
(* Command handlers of the external transports                              *)

\* A payload as the handlers read it: its text (trimmed, lower case) and the
\* value String::toInt gives for it (0 when it is not a number).  The bytes
\* after an MQTT payload are not terminated in caPayload, so what the handler
\* reads is not fixed by the message: it is any of the payloads of the topic.
TextPayload(t) == [text |-> t, int |-> 0]
NumPayload(n) == [text |-> "number", int |-> n]

MqttTopics == {"/white", "/white/intensity", "/rgb", "/rgb/mode", "/rgb/color",
               "/other"}

MqttPayloads(topic) ==
  CASE topic = "/white" -> {TextPayload(t) : t \in OnOffPayloads}
    [] topic = "/white/intensity" ->
         {NumPayload(n) : n \in IntensityInputs}
    [] topic = "/rgb" -> {TextPayload(t) : t \in OnOffPayloads}
    [] topic = "/rgb/mode" -> {TextPayload(t) : t \in ModePayloads}
    [] topic = "/rgb/color" ->
         {NumPayload(n) : n \in ColorInputs}
    [] OTHER -> {TextPayload("other")}

mqttCallback(s, topic, payload) ==
  updateWidgets(
    IF topic = "/white"
    THEN IF payload.text = "on" THEN w_turnOn(s)
         ELSE IF payload.text = "off" THEN w_turnOff(s)
         ELSE s
    ELSE IF topic = "/white/intensity"
    THEN w_setIntensity(s, payload.int)
    ELSE IF topic = "/rgb"
    THEN IF payload.text = "on" THEN rgb_turnOn(s)
         ELSE IF payload.text = "off" THEN rgb_turnOff(s)
         ELSE s
    ELSE IF topic = "/rgb/mode"
    THEN LET s1 == IF payload.text = "normal" THEN rgb_setMode(s, NORMAL)
                   ELSE IF payload.text = "strobe" THEN rgb_setMode(s, STROBE)
                   ELSE IF payload.text = "flash" THEN rgb_setMode(s, FLASH)
                   ELSE IF payload.text = "fade" THEN rgb_setMode(s, FADE)
                   ELSE s
         IN rgb_turnOn(s1)
    ELSE IF topic = "/rgb/color"
    THEN rgb_setColor(s, payload.int)
    ELSE s)

\* zeRGBa widget: three integers
Blynk_V0(s, red, green, blue) ==
  LET color == (red % 256) * 65536 + (green % 256) * 256 + (blue % 256)
  IN updateWidgets(rgb_setColor(s, color))

\* slider: white intensity
Blynk_V1(s, intensity) == updateWidgets(w_setIntensity(s, intensity))

\* menu: 1 Normal, 2 Strobe, 3 Flash, 4 Fade
Blynk_V2(s, option) ==
  updateWidgets(
    CASE option = 1 -> rgb_turnOn(rgb_setMode(s, NORMAL))
      [] option = 2 -> rgb_turnOn(rgb_setMode(s, STROBE))
      [] option = 3 -> rgb_turnOn(rgb_setMode(s, FLASH))
      [] option = 4 -> rgb_turnOn(rgb_setMode(s, FADE))
      [] OTHER -> s)

\* push button: next mode
Blynk_V3(s, param) == IF param # 0 THEN btnModeShortPressed(s) ELSE s

\* switch: white on or off
Blynk_V8(s, param) ==
  updateWidgets(IF param = 0 THEN w_turnOff(s) ELSE w_turnOn(s))

SerialCommands == {"on", "off", "normal", "strobe", "flash", "fade", "next",
                   "color", "mqttserver", "other"}

\* the number String::toInt reads after the command word
SerialArgs(command) ==
  IF command = "color" THEN ColorInputs ELSE {0}

\* serialLoop with a command available; arg is the number after "color"
serialLoop(s, command, arg) ==
  updateWidgets(
    CASE command = "on" -> rgb_turnOff(w_turnOn(s))
      [] command = "off" -> btnModeLongPressed(s)
      [] command = "normal" -> rgb_turnOn(rgb_setMode(s, NORMAL))
      [] command = "strobe" -> rgb_turnOn(rgb_setMode(s, STROBE))
      [] command = "flash" -> rgb_turnOn(rgb_setMode(s, FLASH))
      [] command = "fade" -> rgb_turnOn(rgb_setMode(s, FADE))
      [] command = "next" -> btnModeShortPressed(s)
      [] command = "color" -> rgb_turnOn(rgb_setColor(s, arg))
      [] OTHER -> s)

----------------------------------------------------------------------------
(* setup                                                                    *)

test_leds(s) ==
  LET s1 == rgb_setMode(rgb_turnOff(w_turnOn(s)), NORMAL)
      s2 == rgb_turnOn(w_turnOff(s1))
      s3 == rgb_setColor(s2, COLOR_RED)
      s4 == rgb_setColor(s3, COLOR_GREEN)
  IN rgb_setColor(s4, COLOR_BLUE)

\* faulty variant: the colour of the test pattern is left on the strip
setup_TestColor(s) == rgb_turnOff(w_turnOn(test_leds(s)))

setup(s) ==
  LET s1 == test_leds(s)
      s2 == rgb_turnOff(w_turnOn(s1))
  IN rgb_setColor(s2, DEFAULT_COLOR)

----------------------------------------------------------------------------
(* The state machine                                                        *)

Min(a, b) == IF a < b THEN a ELSE b

\* the handler's result s becomes the next controller state
Apply(s) ==
  \E t \in {s} :
    /\ w_state' = t.w_state
    /\ w_intensity' = t.w_intensity
    /\ rgb_state' = t.rgb_state
    /\ rgb_mode' = t.rgb_mode
    /\ rgb_color' = t.rgb_color
    /\ rgb_speed' = t.rgb_speed
    /\ last_color' = t.last_color
    /\ last_pot_color_value' = t.last_pot_color_value
    /\ stat' = t.stat
    /\ sent' = t.sent

\* lastEv, lastArg, pre, run and run_start record the past; no handler reads
\* them.
\* history of a handler that is not a call of btnModeShortPressed
Log(ev, arg) ==
  /\ lastEv' = ev
  /\ lastArg' = arg
  /\ pre' = Snapshot(Cur)
  /\ run' = 0
  /\ run_start' = Snapshot(Cur)

\* history of a handler that calls btnModeShortPressed
LogShort(ev, arg) ==
  /\ lastEv' = ev
  /\ lastArg' = arg
  /\ pre' = Snapshot(Cur)
  /\ run' = Min(run + 1, MaxRun)
  /\ run_start' = IF run = 0 THEN Snapshot(Cur) ELSE run_start

\* the history before any handler has run: the strip as constructed, whatever
\* mode and colour the library starts with
NoHistory ==
  Snapshot([Cur EXCEPT !.w_state = OFF, !.w_intensity = 0, !.rgb_state = OFF,
                       !.rgb_mode = NORMAL, !.rgb_color = COLOR_WHITE,
                       !.rgb_speed = 0, !.last_color = COLOR_WHITE,
                       !.last_pot_color_value = 1])

InitLeds ==
  /\ pc = "boot"
  /\ w_state = OFF
  /\ w_intensity = 0
  /\ rgb_state = OFF
  /\ rgb_mode \in Modes
  /\ rgb_color \in ColorInputs
  /\ rgb_speed = 0
  /\ last_color = COLOR_WHITE
  /\ last_pot_color_value = 1
  /\ stat = NoStat
  /\ sent = 0
  /\ loop_pc = "serialLoop"
  /\ loop_calls = {}
  /\ lastEv = "none"
  /\ lastArg = <<>>
  /\ pre = NoHistory
  /\ run = 0
  /\ run_start = NoHistory

Init == InitLeds /\ mix_pc = "call" /\ mix_in = 0 /\ mix_out = 0

\* The handlers as loop() runs them, whatever the place of the call; rec says
\* whether the step is recorded in the history variables.
Quiet == UNCHANGED histVars

DoSetup(rec) ==
  /\ pc = "boot"
  /\ pc' = "run"
  /\ Apply(setup(Begin))
  /\ IF rec THEN Log("setup", <<>>) ELSE Quiet

DoShortPress(rec) ==
  /\ Apply(btnModeShortPressed(Begin))
  /\ IF rec THEN LogShort("ShortPress", <<>>) ELSE Quiet

DoLongPress(rec) ==
  /\ Apply(btnModeLongPressed(Begin))
  /\ IF rec THEN Log("LongPress", <<>>) ELSE Quiet

DoMqtt(rec) ==
  \E topic \in MqttTopics : \E payload \in MqttPayloads(topic) :
    /\ Apply(mqttCallback(Begin, topic, payload))
    /\ IF rec THEN Log("mqttCallback", <<topic, payload.text, payload.int>>)
       ELSE Quiet

DoBlynkV0(rec) ==
  \E c \in ColorInputs :
    /\ Apply(Blynk_V0(Begin, Red(c), Green(c), Blue(c)))
    /\ IF rec THEN Log("BLYNK_WRITE(V0)", <<c>>) ELSE Quiet

DoBlynkV1(rec) ==
  \E v \in IntensityInputs :
    /\ Apply(Blynk_V1(Begin, v))
    /\ IF rec THEN Log("BLYNK_WRITE(V1)", <<v>>) ELSE Quiet

DoBlynkV2(rec) ==
  \E option \in 0..5 :
    /\ Apply(Blynk_V2(Begin, option))
    /\ IF rec THEN Log("BLYNK_WRITE(V2)", <<option>>) ELSE Quiet

DoBlynkV3(rec) ==
  \E param \in {0, 1} :
    /\ Apply(Blynk_V3(Begin, param))
    /\ IF ~rec THEN Quiet
       ELSE IF param # 0 THEN LogShort("BLYNK_WRITE(V3)", <<param>>)
       ELSE Log("BLYNK_WRITE(V3)", <<param>>)

DoBlynkV8(rec) ==
  \E param \in {0, 1} :
    /\ Apply(Blynk_V8(Begin, param))
    /\ IF rec THEN Log("BLYNK_WRITE(V8)", <<param>>) ELSE Quiet

DoSerial(rec) ==
  \E command \in SerialCommands : \E arg \in SerialArgs(command) :
    /\ Apply(serialLoop(Begin, command, arg))
    /\ IF ~rec THEN Quiet
       ELSE IF command = "next" THEN LogShort("serialLoop", <<command, arg>>)
       ELSE Log("serialLoop", <<command, arg>>)

DoReadPot(rec) ==
  \E new_pot_value \in PotInputs :
    /\ Apply(readPotValue(Begin, new_pot_value))
    /\ IF rec THEN Log("readPotValue", <<new_pot_value>>) ELSE Quiet

Setup == DoSetup(TRUE) /\ UNCHANGED <<mixVars, loopVars>>

ShortPress == pc = "run" /\ DoShortPress(TRUE) /\ UNCHANGED <<pc, mixVars, loopVars>>

LongPress == pc = "run" /\ DoLongPress(TRUE) /\ UNCHANGED <<pc, mixVars, loopVars>>

Mqtt == pc = "run" /\ DoMqtt(TRUE) /\ UNCHANGED <<pc, mixVars, loopVars>>

BlynkV0 == pc = "run" /\ DoBlynkV0(TRUE) /\ UNCHANGED <<pc, mixVars, loopVars>>

BlynkV1 == pc = "run" /\ DoBlynkV1(TRUE) /\ UNCHANGED <<pc, mixVars, loopVars>>

BlynkV2 == pc = "run" /\ DoBlynkV2(TRUE) /\ UNCHANGED <<pc, mixVars, loopVars>>

BlynkV3 == pc = "run" /\ DoBlynkV3(TRUE) /\ UNCHANGED <<pc, mixVars, loopVars>>

BlynkV8 == pc = "run" /\ DoBlynkV8(TRUE) /\ UNCHANGED <<pc, mixVars, loopVars>>

Serial == pc = "run" /\ DoSerial(TRUE) /\ UNCHANGED <<pc, mixVars, loopVars>>

Next ==
  \/ Setup
  \/ ShortPress
  \/ LongPress
  \/ Mqtt
  \/ BlynkV0
  \/ BlynkV1
  \/ BlynkV2
  \/ BlynkV3
  \/ BlynkV8
  \/ Serial

Spec == Init /\ [][Next]_vars

----------------------------------------------------------------------------
(* The button alone, the button with the potentiometer, and all handlers    *)
(* with the potentiometer.  loop() has its call of readPotValue commented   *)
(* out, so Next holds no potentiometer step.                                *)

ReadPot == pc = "run" /\ DoReadPot(TRUE) /\ UNCHANGED <<pc, mixVars, loopVars>>

NextBtn == Setup \/ ShortPress \/ LongPress

SpecBtn == Init /\ [][NextBtn]_vars

NextPot == Setup \/ ShortPress \/ LongPress \/ ReadPot

SpecPot == Init /\ [][NextPot]_vars

\* every handler and readPotValue, without the history
AllSetup == DoSetup(FALSE) /\ UNCHANGED <<mixVars, loopVars>>
AllShortPress ==
  pc = "run" /\ DoShortPress(FALSE) /\ UNCHANGED <<pc, mixVars, loopVars>>
AllLongPress ==
  pc = "run" /\ DoLongPress(FALSE) /\ UNCHANGED <<pc, mixVars, loopVars>>
AllMqtt == pc = "run" /\ DoMqtt(FALSE) /\ UNCHANGED <<pc, mixVars, loopVars>>
AllBlynkV0 ==
  pc = "run" /\ DoBlynkV0(FALSE) /\ UNCHANGED <<pc, mixVars, loopVars>>
AllBlynkV1 ==
  pc = "run" /\ DoBlynkV1(FALSE) /\ UNCHANGED <<pc, mixVars, loopVars>>
AllBlynkV2 ==
  pc = "run" /\ DoBlynkV2(FALSE) /\ UNCHANGED <<pc, mixVars, loopVars>>
AllBlynkV3 ==
  pc = "run" /\ DoBlynkV3(FALSE) /\ UNCHANGED <<pc, mixVars, loopVars>>
AllBlynkV8 ==
  pc = "run" /\ DoBlynkV8(FALSE) /\ UNCHANGED <<pc, mixVars, loopVars>>
AllSerial ==
  pc = "run" /\ DoSerial(FALSE) /\ UNCHANGED <<pc, mixVars, loopVars>>
AllReadPot ==
  pc = "run" /\ DoReadPot(FALSE) /\ UNCHANGED <<pc, mixVars, loopVars>>

NextAll ==
  \/ AllSetup
  \/ AllShortPress
  \/ AllLongPress
  \/ AllMqtt
  \/ AllBlynkV0
  \/ AllBlynkV1
  \/ AllBlynkV2
  \/ AllBlynkV3
  \/ AllBlynkV8
  \/ AllSerial
  \/ AllReadPot

SpecAll == Init /\ [][NextAll]_vars

----------------------------------------------------------------------------
(* loop(): its calls in their order, one step each                          *)

Idle == UNCHANGED <<ctlVars, histVars>>

LoopStep(from, to) ==
  /\ pc = "run"
  /\ loop_pc = from
  /\ loop_pc' = to
  /\ UNCHANGED <<pc, mixVars>>

\* serialLoop(): a command when one is available
LoopSerial ==
  /\ LoopStep("serialLoop", "btn_mode.loop")
  /\ loop_calls' = {"serialLoop"}
  /\ (DoSerial(FALSE) \/ Idle)

\* btn_mode.loop(): a callback when a press has ended
LoopButton ==
  /\ LoopStep("btn_mode.loop", "led_strip_rgb.loop")
  /\ loop_calls' = loop_calls \cup {"btn_mode.loop"}
  /\ (DoShortPress(FALSE) \/ DoLongPress(FALSE) \/ Idle)

\* led_strip_rgb.loop(): the animation tick
LoopRgb ==
  /\ LoopStep("led_strip_rgb.loop", "mqttClient.loop")
  /\ loop_calls' = loop_calls \cup {"led_strip_rgb.loop"}
  /\ Idle

\* mqttClient.loop(): the callback when a message has arrived
LoopMqtt ==
  /\ LoopStep("mqttClient.loop", "mqttSendTele")
  /\ loop_calls' = loop_calls \cup {"mqttClient.loop"}
  /\ (DoMqtt(FALSE) \/ Idle)

\* mqttSendTele(): the periodic telemetry, on its own topic
LoopTele ==
  /\ LoopStep("mqttSendTele", "Blynk.run")
  /\ loop_calls' = loop_calls \cup {"mqttSendTele"}
  /\ Idle

\* Blynk.run(): a BLYNK_WRITE handler when a widget has written
LoopBlynk ==
  /\ LoopStep("Blynk.run", "delay")
  /\ loop_calls' = loop_calls \cup {"Blynk.run"}
  /\ \/ DoBlynkV0(FALSE)
     \/ DoBlynkV1(FALSE)
     \/ DoBlynkV2(FALSE)
     \/ DoBlynkV3(FALSE)
     \/ DoBlynkV8(FALSE)
     \/ Idle

\* delay(50): the iteration is over
LoopDelay ==
  /\ LoopStep("delay", "serialLoop")
  /\ loop_calls' = loop_calls
  /\ Idle

NextLoop ==
  \/ AllSetup
  \/ LoopSerial
  \/ LoopButton
  \/ LoopRgb
  \/ LoopMqtt
  \/ LoopTele
  \/ LoopBlynk
  \/ LoopDelay

SpecLoop == Init /\ [][NextLoop]_vars

----------------------------------------------------------------------------
(* color_mixer applied to every potentiometer reading                       *)

InitMix == InitLeds /\ mix_pc = "call" /\ mix_in \in 0..POT_MAX /\ mix_out = 0

MixCall ==
  /\ mix_pc = "call"
  /\ mix_pc' = "ret"
  /\ mix_out' = color_mixer(mix_in)
  /\ UNCHANGED <<pc, w_state, w_intensity, rgb_state, rgb_mode, rgb_color,
                 rgb_speed, last_color, last_pot_color_value, stat, sent,
                 loopVars, lastEv, lastArg, pre, run, run_start, mix_in>>

NextMix == MixCall

SpecMix == InitMix /\ [][NextMix]_vars

----------------------------------------------------------------------------
(* Properties of the button callbacks, checked under Spec                   *)

WhiteOn(s) == s.w_state = ON /\ s.rgb_state = OFF
AllOff(s) == s.w_state = OFF /\ s.rgb_state = OFF
\* the handler that ran last called btnModeShortPressed
ShortPressed == run >= 1

CycleNext(m) == IF m = NORMAL THEN STROBE
                ELSE IF m = STROBE THEN FLASH
                ELSE IF m = FLASH THEN FADE
                ELSE NORMAL

\* C1: after a long press the white channel is off and the rgb group is off,
\* whatever the state was before.
C1_LongPressAllOff ==
  lastEv = "LongPress" => (w_state = OFF /\ rgb_state = OFF)

C1_Witness ==
  /\ lastEv = "LongPress"
  /\ pre.w_state = ON
  /\ pre.rgb_state = ON
  /\ pre.rgb_mode = FADE
  /\ pre.rgb_color = COLOR_RED

C3_SinglePressColorMode ==
  (ShortPressed /\ WhiteOn(pre)) =>
    /\ w_state = OFF
    /\ rgb_state = ON
    /\ rgb_color = pre.rgb_color

NextModeCase(s) ==
  /\ s.rgb_state = ON
  /\ \/ s.rgb_mode \in {STROBE, FLASH}
     \/ s.rgb_mode = NORMAL /\ s.rgb_color # COLOR_WHITE

\* C5 as stated: the short press advances the mode, keeps rgb on and the
\* color, and white is off afterwards.
C5_NextModeWhiteOff ==
  (ShortPressed /\ NextModeCase(pre)) =>
    /\ rgb_mode = CycleNext(pre.rgb_mode)
    /\ rgb_state = ON
    /\ rgb_color = pre.rgb_color
    /\ w_state = OFF

\* C5 amended: the short press advances the mode, keeps rgb on and the
\* color, and leaves the white channel as it was.
C5_NextModeWhiteKept ==
  (ShortPressed /\ NextModeCase(pre)) =>
    /\ rgb_mode = CycleNext(pre.rgb_mode)
    /\ rgb_state = ON
    /\ rgb_color = pre.rgb_color
    /\ w_state = pre.w_state
    /\ w_intensity = pre.w_intensity

C5_Witness ==
  /\ ShortPressed
  /\ pre.rgb_state = ON
  /\ pre.rgb_mode = FLASH
  /\ pre.w_state = OFF
  /\ rgb_mode = FADE
  /\ w_state = OFF

\* C6: a short press with rgb on in mode FADE turns rgb off and white on and
\* leaves the stored mode at NORMAL.
C6_FadeToWhite ==
  (ShortPressed /\ pre.rgb_state = ON /\ pre.rgb_mode = FADE) =>
    /\ rgb_state = OFF
    /\ w_state = ON
    /\ rgb_mode = NORMAL

C6_Witness ==
  /\ ShortPressed
  /\ pre.rgb_state = ON
  /\ pre.rgb_mode = FADE
  /\ pre.w_state = OFF
  /\ w_state = ON

\* C7: a short press with white off and rgb off turns white on at the
\* intensity it had, and changes nothing else.
C7_AllOffToWhite ==
  (ShortPressed /\ AllOff(pre)) =>
    /\ w_state = ON
    /\ w_intensity = pre.w_intensity
    /\ rgb_state = OFF
    /\ rgb_color = pre.rgb_color
    /\ rgb_mode = pre.rgb_mode
    /\ last_color = pre.last_color

C7_Witness ==
  /\ ShortPressed
  /\ AllOff(pre)
  /\ pre.w_intensity = 128
  /\ w_state = ON
  /\ w_intensity = 128

----------------------------------------------------------------------------
(* Properties of color_mixer, checked under SpecMix                         *)

Abs(x) == IF x < 0 THEN -x ELSE x

\* C8: color_mixer(0) is red 255, green 0, blue 1.
C8_MixZero ==
  (mix_pc = "ret" /\ mix_in = 0) =>
    (Red(mix_out) = 255 /\ Green(mix_out) = 0 /\ Blue(mix_out) = 1)

\* C9: for adjacent readings v and v+1 every component of color_mixer moves
\* by at most one unit.
C9_Continuous ==
  (mix_pc = "ret" /\ mix_in < POT_MAX) =>
    LET next == color_mixer(mix_in + 1)
    IN /\ Abs(Red(next) - Red(mix_out)) <= 1
       /\ Abs(Green(next) - Green(mix_out)) <= 1
       /\ Abs(Blue(next) - Blue(mix_out)) <= 1

\* C10: in the segments starting at 0, 341 and 682 the third primary is 1 and
\* the two others are x = floor(offset * 3 / 4) and 255 - x.
C10_Segments ==
  mix_pc = "ret" =>
    LET start == IF mix_in < 341 THEN 0 ELSE IF mix_in < 682 THEN 341 ELSE 682
        x == ((mix_in - start) * 3) \div 4
        r == Red(mix_out)
        g == Green(mix_out)
        b == Blue(mix_out)
    IN IF mix_in < 341 THEN b = 1 /\ {r, g} = {x, 255 - x} /\ r + g = 255
       ELSE IF mix_in < 682 THEN r = 1 /\ {g, b} = {x, 255 - x} /\ g + b = 255
       ELSE g = 1 /\ {r, b} = {x, 255 - x} /\ r + b = 255

----------------------------------------------------------------------------
(* Properties of readPotValue, checked under SpecPot                        *)

\* the last step was a potentiometer reading whose quantized value differs
\* from the one remembered (main.cpp:607)
PotAccepted ==
  /\ lastEv = "readPotValue"
  /\ (lastArg[1] \div 4) # pre.last_pot_color_value

\* C11: an accepted potentiometer change while rgb is on sets the rgb color to
\* color_mixer(raw reading) in Normal and Strobe, leaving the speed, and sets
\* the speed to the raw reading in Flash and Fade, leaving the color; the
\* white state, the white intensity and the rgb mode are unchanged.
C11_PotRgb ==
  (PotAccepted /\ pre.rgb_state = ON) =>
    /\ pre.rgb_mode \in {NORMAL, STROBE} =>
         /\ rgb_color = color_mixer(lastArg[1])
         /\ rgb_speed = pre.rgb_speed
    /\ pre.rgb_mode \in {FLASH, FADE} =>
         /\ rgb_speed = lastArg[1]
         /\ rgb_color = pre.rgb_color
    /\ w_state = pre.w_state
    /\ w_intensity = pre.w_intensity
    /\ rgb_mode = pre.rgb_mode
    /\ rgb_state = ON

C11_Witness ==
  /\ PotAccepted
  /\ pre.rgb_state = ON
  /\ pre.rgb_mode = STROBE
  /\ pre.rgb_speed = 1023
  /\ rgb_color = color_mixer(8)
  /\ rgb_color # pre.rgb_color

C13_SmallJumpStaysOff ==
  ( /\ PotAccepted
    /\ AllOff(pre)
    /\ AbsInt((lastArg[1] \div 4) - pre.last_pot_color_value)
         <= THRESHOLD_FOR_TURN_ON ) =>
    w_state = OFF

----------------------------------------------------------------------------
(* Telemetry after a transition, checked under SpecAll                      *)

\* a step of a handler that changes the light state
Transition == pc = "run" /\ Snapshot(Cur)' # Snapshot(Cur)

\* the step is what serialLoop does for the commands that call the button
\* callbacks, which publish themselves before serialLoop publishes
SerialButtonStep ==
  \/ Cur' = serialLoop(Begin, "next", 0)
  \/ Cur' = serialLoop(Begin, "off", 0)

\* C14 as stated: every transition is followed, before its handler returns,
\* by exactly one telemetry emission, whose snapshot is the state after the
\* transition.
C14_ExactlyOneEmission ==
  [][Transition => (sent' = 1 /\ stat' = getState(Cur'))]_vars

\* C14 amended: every transition is followed, before its handler returns, by
\* at least one emission and the last snapshot is the state after the
\* transition; there is exactly one emission except for the serial commands
\* next and off, which emit two; a handler that emits nothing changes nothing.
C14_EmissionAfterTransition ==
  [][pc = "run" =>
       /\ sent' \in 0..2
       /\ Transition => sent' >= 1
       /\ sent' >= 1 => stat' = getState(Cur')
       /\ sent' = 2 => SerialButtonStep
       /\ sent' = 0 => (~Transition /\ stat' = stat)]_vars

C14_Witness ==
  /\ pc = "run"
  /\ sent = 2
  /\ stat = getState(Cur)
  /\ rgb_state = ON
  /\ w_state = OFF
  /\ rgb_speed = 1023

----------------------------------------------------------------------------
(* Commands with an invalid mode, checked under Spec                        *)

\* the last step was a set-rgb-mode command whose value names no mode: the
\* MQTT topic rgb/mode with another word, or the Blynk menu V2 with an option
\* outside 1..4
InvalidModeCommand ==
  \/ /\ lastEv = "mqttCallback"
     /\ lastArg[1] = "/rgb/mode"
     /\ lastArg[2] \notin {"normal", "strobe", "flash", "fade"}
  \/ /\ lastEv = "BLYNK_WRITE(V2)"
     /\ lastArg[1] \notin 1..4

\* C15: a set-rgb-mode command with a value that is none of Normal, Strobe,
\* Flash, Fade changes nothing: white state and intensity, rgb on/off, rgb
\* mode, rgb color and last_color are as before the command.
C15_InvalidModeIgnored ==
  InvalidModeCommand =>
    /\ w_state = pre.w_state
    /\ w_intensity = pre.w_intensity
    /\ rgb_state = pre.rgb_state
    /\ rgb_mode = pre.rgb_mode
    /\ rgb_color = pre.rgb_color
    /\ last_color = pre.last_color

----------------------------------------------------------------------------
(* One iteration of loop(), checked under SpecLoop                          *)

\* C16: in every iteration of loop() the potentiometer is read (readPotValue
\* runs), the button is polled (btn_mode.loop) and the animation tick
\* (led_strip_rgb.loop) runs, whatever the mode: when the iteration reaches
\* its delay all three have been called.
C16_LoopCallsAll ==
  (pc = "run" /\ loop_pc = "delay") =>
    {"readPotValue", "btn_mode.loop", "led_strip_rgb.loop"} \subseteq loop_calls

----------------------------------------------------------------------------
(* The state after setup, checked under Spec                                *)

\* C17: after setup the controller is in WhiteOn: white on, rgb off, the rgb
\* color is DEFAULT_COLOR and the rgb mode is Normal.
C17_AfterSetup ==
  lastEv = "setup" =>
    /\ WhiteOn(Cur)
    /\ rgb_color = DEFAULT_COLOR
    /\ rgb_mode = NORMAL

C17_Witness ==
  /\ lastEv = "setup"
  /\ pc = "run"
  /\ pre.rgb_mode = FADE
  /\ pre.w_state = OFF
  /\ w_state = ON

----------------------------------------------------------------------------
(* Reaching Strobe with the button alone, checked under SpecBtn             *)

\* more short presses than the longest way round the cycle
MaxPresses == 8

RECURSIVE StrobeWithin(_, _)
\* k or fewer calls of btnModeShortPressed from s put rgb on in Strobe
StrobeWithin(s, k) ==
  \/ s.rgb_state = ON /\ s.rgb_mode = STROBE
  \/ k > 0 /\ StrobeWithin(btnModeShortPressed(s), k - 1)

\* C18: from every state reached by short and long presses, a run of short
\* presses alone puts the rgb group in Strobe mode.
C18_StrobeReachable ==
  pc = "run" => StrobeWithin(Cur, MaxPresses)

\* the state setup leaves does reach Strobe, in three presses
SetupReachesStrobe ==
  lastEv = "setup" => StrobeWithin(Cur, 3)

----------------------------------------------------------------------------
(* White and rgb on together, checked under SpecPot                         *)

BothOn(s) == s.w_state = ON /\ s.rgb_state = ON

\* C19: in every state reached by short presses, long presses and
\* potentiometer changes, white and rgb are both on only in the white-as-RGB
\* step (mode Normal, color COLOR_WHITE), and a short press taken with both
\* on ends the overlap.
C19_OverlapTransient ==
  /\ BothOn(Cur) => (rgb_mode = NORMAL /\ rgb_color = COLOR_WHITE)
  /\ (lastEv = "ShortPress" /\ BothOn(pre)) => ~BothOn(Cur)

----------------------------------------------------------------------------
(* The cycle of six short presses, checked under Spec                       *)

\* the last run presses were short presses and nothing else, and they started
\* in WhiteOn with a stored color that is not COLOR_WHITE
CycleRun(k) ==
  /\ run = k
  /\ WhiteOn(run_start)
  /\ run_start.rgb_color # COLOR_WHITE

----------------------------------------------------------------------------
(* Rejected and accepted samples, checked under SpecPot                     *)

\* the last step was a potentiometer reading whose quantized value is the one
\* remembered
PotRejected ==
  /\ lastEv = "readPotValue"
  /\ (lastArg[1] \div 4) = pre.last_pot_color_value

\* C21: a sample whose quantized value equals last_pot_color_value changes
\* nothing (white state and intensity, rgb state, mode, color and speed,
\* last_color, last_pot_color_value) and emits no telemetry; after an accepted
\* sample last_pot_color_value is raw/4 of that sample.
C21_PotSample ==
  /\ PotRejected => (Snapshot(Cur) = pre /\ sent = 0)
  /\ PotAccepted =>
       (last_pot_color_value = lastArg[1] \div 4 /\ sent >= 1)

C21_Witness ==
  /\ PotRejected
  /\ lastArg[1] = 1023
  /\ pre.last_pot_color_value = 255
  /\ pre.rgb_state = ON
  /\ pre.rgb_mode = FLASH
  /\ pre.rgb_speed = 8
  /\ rgb_speed = 8

----------------------------------------------------------------------------
(* What a long press leaves alone, checked under Spec                       *)

\* C22: a long press changes only the two on/off flags: the white intensity,
\* the rgb color, mode and speed and last_color are as before; so after a long
\* press from WhiteOn a short press brings white back on at the intensity it
\* had, with rgb off.
C22_LongPressFrame ==
  lastEv = "LongPress" =>
    /\ w_intensity = pre.w_intensity
    /\ rgb_color = pre.rgb_color
    /\ rgb_mode = pre.rgb_mode
    /\ rgb_speed = pre.rgb_speed
    /\ last_color = pre.last_color
    /\ last_pot_color_value = pre.last_pot_color_value
    /\ WhiteOn(pre) =>
         LET s == btnModeShortPressed(Cur)
         IN /\ WhiteOn(s)
            /\ s.w_intensity = pre.w_intensity

C22_Witness ==
  /\ lastEv = "LongPress"
  /\ WhiteOn(pre)
  /\ pre.w_intensity = 128
  /\ pre.rgb_color = COLOR_RED
  /\ pre.rgb_mode = STROBE
  /\ AllOff(Cur)

----------------------------------------------------------------------------
(* The snapshot getState builds, checked under SpecAll                      *)

----------------------------------------------------------------------------
(* The color field of the snapshot: getState on chosen colors               *)

\* components with one and with two hexadecimal digits
HexComponents == {0, 1, 15, 16, 17, 255}

HexColors ==
  {PackRGB(red, green, blue) :
     red \in HexComponents, green \in HexComponents, blue \in HexComponents}

\* rgb on in NORMAL, driving one of the colors; nothing published yet
InitHex ==
  /\ pc = "run"
  /\ w_state = OFF
  /\ w_intensity = 0
  /\ rgb_state = ON
  /\ rgb_mode = NORMAL
  /\ rgb_color \in HexColors
  /\ rgb_speed = 0
  /\ last_color = COLOR_WHITE
  /\ last_pot_color_value = 1
  /\ stat = NoStat
  /\ sent = 0
  /\ loop_pc = "serialLoop"
  /\ loop_calls = {}
  /\ lastEv = "none"
  /\ lastArg = <<>>
  /\ pre = NoHistory
  /\ run = 0
  /\ run_start = NoHistory
  /\ mix_pc = "call"
  /\ mix_in = 0
  /\ mix_out = 0

\* mqttSendStat publishes what getState returns
SendStat ==
  /\ pc = "run"
  /\ Apply(mqttSendStat(Begin))
  /\ Quiet
  /\ UNCHANGED <<pc, mixVars, loopVars>>

NextHex == SendStat

SpecHex == InitHex /\ [][NextHex]_vars

HexChars ==
  {"0", "1", "2", "3", "4", "5", "6", "7", "8", "9",
   "a", "b", "c", "d", "e", "f", "A", "B", "C", "D", "E", "F"}

\* C24: for every driven color with components in 0..255 the color field is
\* '#' followed by exactly six hexadecimal digits, and two different colors
\* never give the same text.
C24_SixHexDigits ==
  stat # NoStat =>
    LET field == stat.rgb.color
    IN /\ Len(field) = 7
       /\ field[1] = "#"
       /\ \A i \in 2..7 : field[i] \in HexChars
       /\ \A c \in HexColors : c # rgb_color => ColorField(c) # field

====
